---- MODULE Spec2Model ----
(***************************************************************************)
(* Model of the trigger repository's ModuleLevelTrigger                    *)
(* (plugins/ModuleLevelTrigger.cpp): the command context (conf, start,     *)
(* stop, disable_triggers, enable_triggers, scrap), the decision thread    *)
(* send_trigger_decisions, the inhibit callback dfo_busy_callback and the  *)
(* LivetimeCounter the module drives; of BufferManager                     *)
(* (src/trigger/BufferManager.hpp); and of TimingTriggerCandidateMaker     *)
(* (plugins/TimingTriggerCandidateMaker.cpp).                              *)
(***************************************************************************)
EXTENDS Integers, Sequences, FiniteSets, TLC

(***************************************************************************)
(* Bounds of the model.                                                    *)
(***************************************************************************)
\* candidates the candidate source delivers in one behaviour
MaxCands == 2
\* runs (start commands) in one behaviour
MaxRuns == 2
\* disable_triggers and enable_triggers commands and TriggerInhibit messages
\* in one behaviour
MaxEvents == 3
\* clock ticks in one behaviour (SpecClock only)
MaxTime == 3

(***************************************************************************)
(* Inputs.                                                                 *)
(***************************************************************************)
\* the run number the k-th start command carries: 7, 8, ...
RunNumberOf(k) == 6 + k

\* run numbers the TriggerInhibit messages carry
RunNumbers == { RunNumberOf(1), RunNumberOf(2) }

\* what a conf command carries: params.links, in order, and
\* params.hsi_trigger_type_passthrough
ConfParams ==
  { [links |-> <<"link1", "link2">>, hsi_trigger_type_passthrough |-> FALSE],
    [links |-> <<"link2">>, hsi_trigger_type_passthrough |-> TRUE] }

\* the code of triggeralgs::TriggerCandidate::Type::kTiming
kTiming == 1

\* the k-th candidate the source delivers in a run: later candidates carry
\* later times, the odd ones are of type kTiming and the even ones of another
\* type; the first is (time_start 100, time_end 200, time_candidate 150)
SourceCandidate(k) ==
  [time_start |-> 100 * k, time_end |-> 100 * k + 100,
   time_candidate |-> 100 * k + 50,
   type |-> IF k % 2 = 1 THEN kTiming ELSE kTiming + 1,
   detid |-> 257 + k]

NoTC == [time_start |-> 0, time_end |-> 0, time_candidate |-> 0,
         type |-> 0, detid |-> 0]

LCStates == {"kLive", "kPaused", "kDead"}

\* m_livetime_counter.get() == nullptr
NoLC == [null |-> TRUE]

VARIABLES
  \* ---- ModuleLevelTrigger members
  m_configured_flag, m_links, m_hsi_passthrough, m_run_number,
  m_paused, m_running_flag, m_dfo_is_busy,
  m_livetime_counter, m_lc_deadtime,
  m_last_trigger_number,
  m_tc_received_count, m_td_sent_count, m_td_inhibited_count,
  m_td_paused_count, m_td_total_count,
  m_td_queue_timeout_expired_err_count,
  callback_registered,
  \* ---- control state of the three contexts
  state,      \* the framework's command state: which commands are accepted
  cmd,        \* position of the command context inside a command
  thr,        \* position of the send_trigger_decisions thread
  tc,         \* the candidate the thread holds
  cb,         \* position of the inhibit callback
  inhibit,    \* the TriggerInhibit message the callback holds
  crashed,    \* the process died on a null m_livetime_counter
  \* ---- environment
  now,        \* the clock LivetimeCounter reads
  srcLeft,    \* candidates the source still delivers in this run
  attempts,   \* the sends of this run, in order: candidate, outcome, number
  last_decision, \* the decision last handed to the sink
  \* ---- bookkeeping of the behaviour
  runs, events, recv, cur, pz, qb,
  \* ---- BufferManager (src/trigger/BufferManager.hpp)
  m_tpset_buffer,  \* the std::set, as the sequence its iteration yields
  capacity,        \* the maximum size the buffer is configured with
  add_result,      \* what the last add returned
  window,          \* the arguments of the last get_tpsets_in_window
  window_result,   \* what the last get_tpsets_in_window returned
  added,           \* every TPSet handed to add so far
  \* ---- TimingTriggerCandidateMaker (plugins/TimingTriggerCandidateMaker.cpp)
  m_detid_offsets_map, running_flag, inputQueue_, outputQueue_,
  data, candidate,
  mk_state,        \* the framework's command state of the maker
  mk_cmd,          \* position of the maker's command context
  mk_thr,          \* position of the worker thread in do_work
  produced         \* data the upstream has pushed so far

\* the variables of ModuleLevelTrigger
mltVars == << m_configured_flag, m_links, m_hsi_passthrough, m_run_number,
           m_paused, m_running_flag, m_dfo_is_busy,
           m_livetime_counter, m_lc_deadtime, m_last_trigger_number,
           m_tc_received_count, m_td_sent_count, m_td_inhibited_count,
           m_td_paused_count, m_td_total_count,
           m_td_queue_timeout_expired_err_count, callback_registered,
           state, cmd, thr, tc, cb, inhibit, crashed,
           now, srcLeft, attempts, last_decision,
           runs, events, recv, cur, pz, qb >>

bufVars == << m_tpset_buffer, capacity, add_result, window, window_result,
              added >>

makerVars == << m_detid_offsets_map, running_flag, inputQueue_, outputQueue_,
                data, candidate, mk_state, mk_cmd, mk_thr, produced >>

\* what the actions of ModuleLevelTrigger leave alone
otherVars == << bufVars, makerVars >>

vars == << mltVars, bufVars, makerVars >>

confVars == << m_configured_flag, m_links, m_hsi_passthrough >>

counterVars == << m_last_trigger_number,
                  m_tc_received_count, m_td_sent_count, m_td_inhibited_count,
                  m_td_paused_count, m_td_total_count,
                  m_td_queue_timeout_expired_err_count >>

flagVars == << m_paused, m_running_flag, m_dfo_is_busy >>

cbVars == << cb, inhibit >>

envVars == << now, srcLeft, attempts, last_decision >>

(***************************************************************************)
(* LivetimeCounter: current state, time of the last transition and the     *)
(* time accumulated per state.  created_at records the construction time.  *)
(***************************************************************************)
LivetimeCounter(s, t) ==
  [null |-> FALSE, current_state |-> s, entered_at |-> t, created_at |-> t,
   accumulated |-> [x \in LCStates |-> 0]]

\* a faulty variant: the open interval is dropped on a transition
set_state_lost(lc, s, t) ==
  [lc EXCEPT !.current_state = s, !.entered_at = t]

\* set_state: close the open interval into the state left, enter the target
set_state(lc, s, t) ==
  [lc EXCEPT !.accumulated[lc.current_state] = @ + (t - lc.entered_at),
             !.current_state = s,
             !.entered_at = t]

\* get_time: the accumulated time, plus the open interval for the current state
get_time(lc, s, t) ==
  lc.accumulated[s] + (IF lc.current_state = s THEN t - lc.entered_at ELSE 0)

(***************************************************************************)
(* get_info: the monitoring snapshot.                                      *)
(***************************************************************************)
get_info ==
  [tc_received_count  |-> m_tc_received_count,
   td_sent_count      |-> m_td_sent_count,
   td_inhibited_count |-> m_td_inhibited_count,
   td_paused_count    |-> m_td_paused_count,
   td_total_count     |-> m_td_total_count,
   lc_kLive   |-> IF m_livetime_counter.null THEN 0
                  ELSE get_time(m_livetime_counter, "kLive", now),
   lc_kPaused |-> IF m_livetime_counter.null THEN 0
                  ELSE get_time(m_livetime_counter, "kPaused", now),
   lc_kDead   |-> IF m_livetime_counter.null THEN 0
                  ELSE get_time(m_livetime_counter, "kDead", now)]

(***************************************************************************)
(* create_decision.                                                        *)
(***************************************************************************)
\* a faulty variant: the decision carries the last number sent
NextTriggerNumber_stale == m_last_trigger_number

NextTriggerNumber == m_last_trigger_number + 1

\* a & b, bit by bit
RECURSIVE BitAnd(_, _)
BitAnd(a, b) ==
  IF a = 0 \/ b = 0 THEN 0
  ELSE (a % 2) * (b % 2) + 2 * BitAnd(a \div 2, b \div 2)

\* a << n
RECURSIVE ShiftLeft(_, _)
ShiftLeft(a, n) == IF n = 0 THEN a ELSE ShiftLeft(2 * a, n - 1)

\* a faulty variant: the type code is not shifted
TriggerType_unshifted(c) ==
  IF m_hsi_passthrough
    THEN IF c.type = kTiming THEN BitAnd(c.detid, 255) ELSE c.type
    ELSE 1

\* lines 165-174
TriggerType(c) ==
  IF m_hsi_passthrough
    THEN IF c.type = kTiming THEN BitAnd(c.detid, 255) ELSE ShiftLeft(c.type, 8)
    ELSE 1

ComponentRequest(link, c) ==
  [component |-> link, window_begin |-> c.time_start, window_end |-> c.time_end]

\* a faulty variant: the readout window starts at the candidate's timestamp
create_decision_window(c) ==
  [trigger_number    |-> NextTriggerNumber,
   run_number        |-> m_run_number,
   trigger_timestamp |-> c.time_candidate,
   trigger_type      |-> TriggerType(c),
   components        |-> [i \in 1..Len(m_links) |->
                            [component |-> m_links[i],
                             window_begin |-> c.time_candidate,
                             window_end |-> c.time_end]]]

create_decision(c) ==
  [trigger_number    |-> NextTriggerNumber,
   run_number        |-> m_run_number,
   trigger_timestamp |-> c.time_candidate,
   trigger_type      |-> TriggerType(c),
   components        |-> [i \in 1..Len(m_links) |-> ComponentRequest(m_links[i], c)]]

(***************************************************************************)
NoDecision ==
  [trigger_number |-> 0, run_number |-> 0, trigger_timestamp |-> 0,
   trigger_type |-> 0, components |-> << >>]

(***************************************************************************)
(* Bookkeeping: the counters as a record, and a window of observation      *)
(* opened when a pause or a busy notification has taken effect.            *)
(***************************************************************************)
Counters ==
  [sent |-> m_td_sent_count, ltn |-> m_last_trigger_number,
   paused |-> m_td_paused_count, inhibited |-> m_td_inhibited_count,
   total |-> m_td_total_count, err |-> m_td_queue_timeout_expired_err_count,
   attempts |-> Len(attempts)]

NoCounters ==
  [sent |-> 0, ltn |-> 0, paused |-> 0, inhibited |-> 0, total |-> 0, err |-> 0,
   attempts |-> 0]

NoWindow == [on |-> FALSE, pending |-> FALSE, n |-> 0, base |-> NoCounters]

\* While the candidate is processed (from its receipt to line 251): stopped,
\* the running flag was already cleared when it was received; busy, the busy
\* flag was set at some time since it was received; live, the LivetimeCounter
\* read kLive at some time since it was received
NoCur == [id |-> 0, outcome |-> "none", tn |-> 0, base |-> NoCounters,
          stopped |-> FALSE, busy |-> FALSE, live |-> FALSE]

\* the thread holds a candidate it has not classified yet
Processing == thr \in {"gate_paused", "gate_busy", "send", "elif"}

\* the thread is between two iterations: the counters are those of the run
\* and no candidate is being processed
AtLoopHead == thr \in {"none", "poll", "empty", "exit", "done"}

\* a window opened now: it counts from the current counters, or, when the
\* thread has yet to reset the counters or is processing a candidate, from
\* the counters once it is back at the head of the loop
OpenWindow ==
  [on |-> TRUE, pending |-> ~AtLoopHead, n |-> 0,
   base |-> IF AtLoopHead THEN Counters ELSE NoCounters]

\* one more candidate received inside the window
WindowRecv(w) == IF w.on /\ ~w.pending THEN [w EXCEPT !.n = @ + 1] ELSE w

\* the thread is back at the head of the loop with counters c
WindowIterEnd(w, c) ==
  IF w.on /\ w.pending THEN [w EXCEPT !.pending = FALSE, !.base = c] ELSE w

(***************************************************************************)
(* The module as constructed, and as create_decision may find it: with     *)
(* links, pass-through, run number and last trigger number as given and    *)
(* candidate c in hand.                                                    *)
(***************************************************************************)
ModuleLevelTrigger(c, links, passthrough, run_number, last_trigger_number) ==
  /\ m_configured_flag = (links # << >>)
  /\ m_links = links
  /\ m_hsi_passthrough = passthrough
  /\ m_run_number = run_number
  /\ m_paused = FALSE
  /\ m_running_flag = FALSE
  /\ m_dfo_is_busy = FALSE
  /\ m_livetime_counter = NoLC
  /\ m_lc_deadtime = 0
  /\ m_last_trigger_number = last_trigger_number
  /\ m_tc_received_count = 0
  /\ m_td_sent_count = 0
  /\ m_td_inhibited_count = 0
  /\ m_td_paused_count = 0
  /\ m_td_total_count = 0
  /\ m_td_queue_timeout_expired_err_count = 0
  /\ callback_registered = FALSE
  /\ state = "INITIAL"
  /\ cmd = "idle"
  /\ thr = "none"
  /\ tc = c
  /\ cb = "idle"
  /\ inhibit = [run_number |-> 0, busy |-> FALSE]
  /\ crashed = FALSE
  /\ now = 0
  /\ srcLeft = MaxCands
  /\ attempts = << >>
  /\ last_decision = NoDecision
  /\ runs = 0
  /\ events = 0
  /\ recv = 0
  /\ cur = NoCur
  /\ pz = NoWindow
  /\ qb = NoWindow

(***************************************************************************)
(* The command context.  Commands arrive one at a time and in the          *)
(* framework's order: conf, start, {disable_triggers, enable_triggers}*,   *)
(* stop, scrap (register_command, lines 44-49).                            *)
(***************************************************************************)
Alive == ~crashed

CmdIdle(s) == Alive /\ cmd = "idle" /\ state = s

do_configure ==
  /\ CmdIdle("INITIAL")
  /\ \E params \in ConfParams :
       /\ m_links' = params.links
       /\ m_hsi_passthrough' = params.hsi_trigger_type_passthrough
  /\ m_configured_flag' = TRUE
  /\ state' = "CONFIGURED"
  /\ UNCHANGED otherVars
  /\ UNCHANGED << m_run_number, flagVars, m_livetime_counter, m_lc_deadtime,
                  counterVars, callback_registered, cmd, thr, tc, cbVars,
                  crashed, envVars, runs, events, recv, cur, pz, qb >>

do_scrap ==
  /\ CmdIdle("CONFIGURED")
  /\ m_links' = << >>
  /\ m_configured_flag' = FALSE
  /\ state' = "INITIAL"
  /\ UNCHANGED otherVars
  /\ UNCHANGED << m_hsi_passthrough, m_run_number, flagVars, m_livetime_counter,
                  m_lc_deadtime, counterVars, callback_registered, cmd, thr, tc,
                  cbVars, crashed, envVars, runs, events, recv, cur,
                  pz, qb >>

\* do_start, lines 100-109: the run number, the flags, a fresh LivetimeCounter
\* in kPaused and the inhibit callback.  The source and the sink of the new
\* run start here too.
do_start ==
  /\ CmdIdle("CONFIGURED")
  /\ runs < MaxRuns
  /\ m_run_number' = RunNumberOf(runs + 1)
  /\ m_paused' = TRUE
  /\ m_running_flag' = TRUE
  /\ m_dfo_is_busy' = FALSE
  /\ m_livetime_counter' = LivetimeCounter("kPaused", now)
  /\ callback_registered' = TRUE
  /\ cmd' = "start_spawn"
  /\ runs' = runs + 1
  /\ recv' = 0
  /\ attempts' = << >>
  /\ last_decision' = NoDecision
  /\ cur' = NoCur
  /\ pz' = NoWindow
  /\ qb' = NoWindow
  /\ tc' = NoTC
  /\ UNCHANGED otherVars
  /\ UNCHANGED << confVars, m_lc_deadtime, counterVars, state, thr, cbVars,
                  crashed, now, srcLeft, events >>

\* do_start, lines 111-113: the thread is spawned and start returns
do_start_spawn ==
  /\ Alive /\ cmd = "start_spawn"
  /\ thr' = "reset"
  /\ cmd' = "idle"
  /\ state' = "RUNNING"
  /\ UNCHANGED otherVars
  /\ UNCHANGED << confVars, m_run_number, flagVars, m_livetime_counter,
                  m_lc_deadtime, counterVars, callback_registered, tc, cbVars,
                  crashed, envVars, runs, events, recv, cur, pz, qb >>

\* do_stop, line 119
do_stop ==
  /\ CmdIdle("RUNNING")
  /\ m_running_flag' = FALSE
  /\ cmd' = "stop_join"
  /\ qb' = NoWindow
  /\ UNCHANGED otherVars
  /\ UNCHANGED << confVars, m_run_number, m_paused, m_dfo_is_busy,
                  m_livetime_counter, m_lc_deadtime, counterVars,
                  callback_registered, state, thr, tc, cbVars, crashed, envVars,
                  runs, events, recv, cur, pz >>

\* do_stop, line 120: join returns once the thread has returned
do_stop_join ==
  /\ Alive /\ cmd = "stop_join"
  /\ thr = "done"
  /\ thr' = "none"
  /\ cmd' = "stop_lc"
  /\ UNCHANGED otherVars
  /\ UNCHANGED << confVars, m_run_number, flagVars, m_livetime_counter,
                  m_lc_deadtime, counterVars, callback_registered, state, tc,
                  cbVars, crashed, envVars, runs, events, recv, cur,
                  pz, qb >>

\* do_stop, lines 122-125: the deadtime is read and the counter destroyed
do_stop_lc ==
  /\ Alive /\ cmd = "stop_lc"
  /\ m_lc_deadtime' = get_time(m_livetime_counter, "kDead", now)
                        + get_time(m_livetime_counter, "kPaused", now)
  /\ m_livetime_counter' = NoLC
  /\ cmd' = "stop_remove"
  /\ UNCHANGED otherVars
  /\ UNCHANGED << confVars, m_run_number, flagVars, counterVars,
                  callback_registered, state, thr, tc, cbVars, crashed, envVars,
                  runs, events, recv, cur, pz, qb >>

\* do_stop, lines 127-128: the callback is removed and stop returns.
\* remove_callback stops the receiver's callback thread and joins it, so it
\* returns once a callback in progress has returned.
do_stop_remove ==
  /\ Alive /\ cmd = "stop_remove"
  /\ cb = "idle"
  /\ callback_registered' = FALSE
  /\ cmd' = "idle"
  /\ state' = "CONFIGURED"
  /\ UNCHANGED otherVars
  /\ UNCHANGED << confVars, m_run_number, flagVars, m_livetime_counter,
                  m_lc_deadtime, counterVars, thr, tc, cbVars, crashed, envVars,
                  runs, events, recv, cur, pz, qb >>

\* do_pause, line 134
do_pause ==
  /\ CmdIdle("RUNNING")
  /\ events < MaxEvents
  /\ m_paused' = TRUE
  /\ cmd' = "pause_lc"
  /\ events' = events + 1
  /\ qb' = NoWindow
  /\ UNCHANGED otherVars
  /\ UNCHANGED << confVars, m_run_number, m_running_flag, m_dfo_is_busy,
                  m_livetime_counter, m_lc_deadtime, counterVars,
                  callback_registered, state, thr, tc, cbVars, crashed, envVars,
                  runs, recv, cur, pz >>

\* do_pause, lines 135-137: the counter goes to kPaused and pause returns
do_pause_lc ==
  /\ Alive /\ cmd = "pause_lc"
  /\ m_livetime_counter' = set_state(m_livetime_counter, "kPaused", now)
  /\ cmd' = "idle"
  /\ pz' = OpenWindow
  /\ UNCHANGED otherVars
  /\ UNCHANGED << confVars, m_run_number, flagVars, m_lc_deadtime, counterVars,
                  callback_registered, state, thr, tc, cbVars, crashed, envVars,
                  runs, events, recv, cur, qb >>

\* do_resume, lines 143-145: the counter goes to kLive
do_resume ==
  /\ CmdIdle("RUNNING")
  /\ events < MaxEvents
  /\ m_livetime_counter' = set_state(m_livetime_counter, "kLive", now)
  /\ cmd' = "resume_flag"
  /\ events' = events + 1
  /\ pz' = NoWindow
  /\ qb' = NoWindow
  /\ cur' = IF Processing THEN [cur EXCEPT !.live = TRUE] ELSE cur
  /\ UNCHANGED otherVars
  /\ UNCHANGED << confVars, m_run_number, flagVars, m_lc_deadtime, counterVars,
                  callback_registered, state, thr, tc, cbVars, crashed, envVars,
                  runs, recv >>

\* do_resume, line 146: the paused flag is cleared and resume returns
do_resume_flag ==
  /\ Alive /\ cmd = "resume_flag"
  /\ m_paused' = FALSE
  /\ cmd' = "idle"
  /\ UNCHANGED otherVars
  /\ UNCHANGED << confVars, m_run_number, m_running_flag, m_dfo_is_busy,
                  m_livetime_counter, m_lc_deadtime, counterVars,
                  callback_registered, state, thr, tc, cbVars, crashed, envVars,
                  runs, events, recv, cur, pz, qb >>

(***************************************************************************)
(* The inhibit callback dfo_busy_callback, on the receiver's own thread.   *)
(***************************************************************************)
NoInhibit == [run_number |-> 0, busy |-> FALSE]

\* a TriggerInhibit message arrives and the callback is entered (line 273)
dfo_busy_callback ==
  /\ Alive /\ callback_registered /\ cb = "idle"
  /\ events < MaxEvents
  /\ \E r \in RunNumbers, b \in BOOLEAN : inhibit' = [run_number |-> r, busy |-> b]
  /\ cb' = "check"
  /\ events' = events + 1
  /\ UNCHANGED otherVars
  /\ UNCHANGED << confVars, m_run_number, flagVars, m_livetime_counter,
                  m_lc_deadtime, counterVars, callback_registered, state, cmd,
                  thr, tc, crashed, envVars, runs, recv, cur, pz, qb >>

\* a faulty variant: every notification is taken as one of the active run
RunMatches_any(msg) == TRUE

\* line 274
RunMatches(msg) == msg.run_number = m_run_number

\* line 274: a notification of another run is dropped
dfo_busy_check ==
  /\ Alive /\ cb = "check"
  /\ IF RunMatches(inhibit)
       THEN /\ cb' = "store"
            /\ inhibit' = inhibit
            /\ qb' = NoWindow
       ELSE /\ cb' = "idle"
            /\ inhibit' = NoInhibit
            /\ qb' = qb
  /\ UNCHANGED otherVars
  /\ UNCHANGED << confVars, m_run_number, flagVars, m_livetime_counter,
                  m_lc_deadtime, counterVars, callback_registered, state, cmd,
                  thr, tc, crashed, envVars, runs, events, recv, cur,
                  pz >>

\* line 276
BusyAfterInhibit(msg) == msg.busy

dfo_busy_store ==
  /\ Alive /\ cb = "store"
  /\ m_dfo_is_busy' = BusyAfterInhibit(inhibit)
  /\ cb' = "set_state"
  /\ cur' = IF Processing /\ BusyAfterInhibit(inhibit)
              THEN [cur EXCEPT !.busy = TRUE] ELSE cur
  /\ UNCHANGED otherVars
  /\ UNCHANGED << confVars, m_run_number, m_paused, m_running_flag,
                  m_livetime_counter, m_lc_deadtime, counterVars,
                  callback_registered, state, cmd, thr, tc, inhibit, crashed,
                  envVars, runs, events, recv, pz, qb >>

\* line 277: set_state(kDead), whatever the busy value.  On a counter that
\* do_stop has already destroyed the call is undefined: the process dies, or
\* goes on with nothing changed.
dfo_busy_set_state ==
  /\ Alive /\ cb = "set_state"
  /\ IF m_livetime_counter.null
       THEN /\ crashed' \in BOOLEAN
            /\ UNCHANGED << m_livetime_counter, qb >>
       ELSE /\ m_livetime_counter' = set_state(m_livetime_counter, "kDead", now)
            /\ crashed' = crashed
            /\ qb' = IF inhibit.busy /\ ~m_paused /\ cmd = "idle" /\ state = "RUNNING"
                       THEN OpenWindow ELSE qb
  /\ cb' = "idle"
  /\ inhibit' = NoInhibit
  /\ UNCHANGED otherVars
  /\ UNCHANGED << confVars, m_run_number, flagVars, m_lc_deadtime, counterVars,
                  callback_registered, state, cmd, thr, tc, envVars, runs,
                  events, recv, cur, pz >>

(***************************************************************************)
(* The thread send_trigger_decisions.                                      *)
(***************************************************************************)
\* lines 196-208: the trigger number and the counters are reset
thr_reset ==
  /\ Alive /\ thr = "reset"
  /\ m_last_trigger_number' = 0
  /\ m_tc_received_count' = 0
  /\ m_td_sent_count' = 0
  /\ m_td_inhibited_count' = 0
  /\ m_td_paused_count' = 0
  /\ m_td_total_count' = 0
  /\ thr' = "poll"
  /\ pz' = WindowIterEnd(pz, [NoCounters EXCEPT
                                !.err = m_td_queue_timeout_expired_err_count])
  /\ qb' = WindowIterEnd(qb, [NoCounters EXCEPT
                                !.err = m_td_queue_timeout_expired_err_count])
  /\ UNCHANGED otherVars
  /\ UNCHANGED << confVars, m_run_number, flagVars, m_livetime_counter,
                  m_lc_deadtime, m_td_queue_timeout_expired_err_count,
                  callback_registered, state, cmd, tc, cbVars, crashed, envVars,
                  runs, events, recv, cur >>

\* lines 211, 223: try_receive returns a candidate, and it is counted
thr_receive ==
  /\ Alive /\ thr = "poll"
  /\ srcLeft > 0
  /\ tc' = SourceCandidate(recv + 1)
  /\ srcLeft' = srcLeft - 1
  /\ m_tc_received_count' = m_tc_received_count + 1
  /\ thr' = "gate_paused"
  /\ recv' = recv + 1
  /\ cur' = [id |-> recv + 1, outcome |-> "none", tn |-> 0, base |-> Counters,
             stopped |-> ~m_running_flag,
             busy |-> m_dfo_is_busy,
             live |-> m_livetime_counter.current_state = "kLive"]
  /\ pz' = WindowRecv(pz)
  /\ qb' = WindowRecv(qb)
  /\ UNCHANGED otherVars
  /\ UNCHANGED << confVars, m_run_number, flagVars, m_livetime_counter,
                  m_lc_deadtime, m_last_trigger_number, m_td_sent_count,
                  m_td_inhibited_count, m_td_paused_count, m_td_total_count,
                  m_td_queue_timeout_expired_err_count, callback_registered,
                  state, cmd, cbVars, crashed, now, attempts, last_decision,
                  runs, events >>

\* lines 211-212: try_receive times out with no candidate
thr_receive_timeout ==
  /\ Alive /\ thr = "poll"
  /\ thr' = "empty"
  /\ UNCHANGED otherVars
  /\ UNCHANGED << confVars, m_run_number, flagVars, m_livetime_counter,
                  m_lc_deadtime, counterVars, callback_registered, state, cmd,
                  tc, cbVars, crashed, envVars, runs, events, recv,
                  cur, pz, qb >>

\* a faulty variant: the loop ends at any empty poll
LoopExits_always == TRUE

\* line 215
LoopExits == ~m_running_flag

\* lines 215-219: break when stopped, else poll again
thr_empty ==
  /\ Alive /\ thr = "empty"
  /\ thr' = IF LoopExits THEN "exit" ELSE "poll"
  /\ UNCHANGED otherVars
  /\ UNCHANGED << confVars, m_run_number, flagVars, m_livetime_counter,
                  m_lc_deadtime, counterVars, callback_registered, state, cmd,
                  tc, cbVars, crashed, envVars, runs, events, recv,
                  cur, pz, qb >>

\* line 225, first operand: !m_paused.load()
thr_gate_paused ==
  /\ Alive /\ thr = "gate_paused"
  /\ thr' = IF ~m_paused THEN "gate_busy" ELSE "elif"
  /\ UNCHANGED otherVars
  /\ UNCHANGED << confVars, m_run_number, flagVars, m_livetime_counter,
                  m_lc_deadtime, counterVars, callback_registered, state, cmd,
                  tc, cbVars, crashed, envVars, runs, events, recv,
                  cur, pz, qb >>

\* a faulty variant: the busy flag is not consulted
BusyGate_open == "send"

\* line 225, second operand: !m_dfo_is_busy.load()
BusyGate == IF ~m_dfo_is_busy THEN "send" ELSE "elif"

thr_gate_busy ==
  /\ Alive /\ thr = "gate_busy"
  /\ thr' = BusyGate
  /\ UNCHANGED otherVars
  /\ UNCHANGED << confVars, m_run_number, flagVars, m_livetime_counter,
                  m_lc_deadtime, counterVars, callback_registered, state, cmd,
                  tc, cbVars, crashed, envVars, runs, events, recv,
                  cur, pz, qb >>

\* a faulty variant: the trigger number is incremented after the try block
TriggerNumberAfterSend_always(ok) == m_last_trigger_number + 1

\* line 236, skipped when send throws
TriggerNumberAfterSend(ok) ==
  IF ok THEN m_last_trigger_number + 1 ELSE m_last_trigger_number

\* line 240, in the catch block
ErrCountAfterSend(ok) ==
  IF ok THEN m_td_queue_timeout_expired_err_count
        ELSE m_td_queue_timeout_expired_err_count + 1

\* a faulty variant: the catch block goes on to the next poll
PcAfterSend_continue(ok) == IF ok THEN "total" ELSE "poll"

\* a faulty variant: a failed send is tried again
PcAfterSend_retry(ok) == IF ok THEN "total" ELSE "send"

\* lines 237-241: the catch block falls through to line 251
PcAfterSend(ok) == "total"

\* lines 227-241: the decision is built and sent; ok is the outcome of
\* td_sender->send (FALSE: it threw an ers::Issue, a timeout or a transport error)
thr_send ==
  /\ Alive /\ thr = "send"
  /\ \E ok \in BOOLEAN :
       LET decision == create_decision(tc) IN
       /\ attempts' = Append(attempts, [cand |-> cur.id, ok |-> ok,
                                        trigger_number |-> decision.trigger_number])
       /\ last_decision' = decision
       /\ m_td_sent_count' = IF ok THEN m_td_sent_count + 1 ELSE m_td_sent_count
       /\ m_last_trigger_number' = TriggerNumberAfterSend(ok)
       /\ m_td_queue_timeout_expired_err_count' = ErrCountAfterSend(ok)
       /\ cur' = [cur EXCEPT !.outcome = IF ok THEN "sent" ELSE "failed",
                             !.tn = decision.trigger_number]
       /\ thr' = PcAfterSend(ok)
  /\ UNCHANGED otherVars
  /\ UNCHANGED << confVars, m_run_number, flagVars, m_livetime_counter,
                  m_lc_deadtime, m_tc_received_count, m_td_inhibited_count,
                  m_td_paused_count, m_td_total_count, callback_registered,
                  state, cmd, tc, cbVars, crashed, now, srcLeft, runs, events, recv, pz, qb >>

\* a faulty variant: the busy flag is looked at first
ElifPaused_busy_first == ~m_dfo_is_busy

\* line 243: m_paused.load()
ElifPaused == m_paused

\* lines 243-250: the candidate is counted as paused or as inhibited
thr_elif ==
  /\ Alive /\ thr = "elif"
  /\ IF ElifPaused
       THEN /\ m_td_paused_count' = m_td_paused_count + 1
            /\ m_td_inhibited_count' = m_td_inhibited_count
            /\ cur' = [cur EXCEPT !.outcome = "paused"]
       ELSE /\ m_td_inhibited_count' = m_td_inhibited_count + 1
            /\ m_td_paused_count' = m_td_paused_count
            /\ cur' = [cur EXCEPT !.outcome = "inhibited"]
  /\ thr' = "total"
  /\ UNCHANGED otherVars
  /\ UNCHANGED << confVars, m_run_number, flagVars, m_livetime_counter,
                  m_lc_deadtime, m_last_trigger_number, m_tc_received_count,
                  m_td_sent_count, m_td_total_count,
                  m_td_queue_timeout_expired_err_count, callback_registered,
                  state, cmd, tc, cbVars, crashed, envVars, runs, events, recv, pz, qb >>

\* a faulty variant: the running flag is looked at after a candidate too
PcAfterTotal_checked == IF m_running_flag THEN "poll" ELSE "exit"

\* line 252: the end of the loop body goes back to line 210, with no look at
\* the running flag
PcAfterTotal == "poll"

\* line 251, and back to the poll
thr_total ==
  /\ Alive /\ thr = "total"
  /\ m_td_total_count' = m_td_total_count + 1
  /\ thr' = PcAfterTotal
  /\ cur' = [cur EXCEPT !.stopped = FALSE, !.busy = FALSE, !.live = FALSE]
  /\ pz' = WindowIterEnd(pz, [Counters EXCEPT !.total = @ + 1])
  /\ qb' = WindowIterEnd(qb, [Counters EXCEPT !.total = @ + 1])
  /\ UNCHANGED otherVars
  /\ UNCHANGED << confVars, m_run_number, flagVars, m_livetime_counter,
                  m_lc_deadtime, m_last_trigger_number, m_tc_received_count,
                  m_td_sent_count, m_td_inhibited_count, m_td_paused_count,
                  m_td_queue_timeout_expired_err_count, callback_registered,
                  state, cmd, tc, cbVars, crashed, envVars, runs, events, recv >>

\* lines 254-267: after the loop the livetime is read, and the thread returns.
\* Of the values stored here m_lc_deadtime is kept; m_lc_kLive, m_lc_kPaused
\* and m_lc_kDead are written here and at line 204-206 and read nowhere.
thr_exit ==
  /\ Alive /\ thr = "exit"
  /\ m_lc_deadtime' = get_time(m_livetime_counter, "kDead", now)
                        + get_time(m_livetime_counter, "kPaused", now)
  /\ thr' = "done"
  /\ UNCHANGED otherVars
  /\ UNCHANGED << confVars, m_run_number, flagVars, m_livetime_counter,
                  counterVars, callback_registered, state, cmd, tc, cbVars,
                  crashed, envVars, runs, events, recv, cur, pz, qb >>

(***************************************************************************)
(* The clock.                                                              *)
(***************************************************************************)
Tick ==
  /\ Alive
  /\ now < MaxTime
  /\ now' = now + 1
  /\ UNCHANGED otherVars
  /\ UNCHANGED << confVars, m_run_number, flagVars, m_livetime_counter,
                  m_lc_deadtime, counterVars, callback_registered, state, cmd,
                  thr, tc, cbVars, crashed, srcLeft, attempts, last_decision,
                  runs, events, recv, cur, pz, qb >>

(***************************************************************************)
(* create_decision on its own: the candidates and the configurations it is *)
(* applied to.                                                             *)
(***************************************************************************)
\* the type codes of triggeralgs::TriggerCandidate::Type the candidates carry
CandidateTypes == 0..5

\* the detector ids the candidates carry, 16 bits wide
DetIds == {0, 1, 255, 256, 257, 511, 4660, 65535}

DecisionCandidates ==
  { [time_start |-> 100, time_end |-> 200, time_candidate |-> 150,
     type |-> t, detid |-> d] : t \in CandidateTypes, d \in DetIds }

\* lines 227 and 234, with the sink taking the decision
apply_create_decision ==
  /\ last_decision = NoDecision
  /\ last_decision' = create_decision(tc)
  /\ UNCHANGED << confVars, m_run_number, flagVars, m_livetime_counter,
                  m_lc_deadtime, counterVars, callback_registered, state, cmd,
                  thr, tc, cbVars, crashed, now, srcLeft, attempts, runs,
                  events, recv, cur, pz, qb, otherVars >>

(***************************************************************************)
(* BufferManager (src/trigger/BufferManager.hpp): TPSets kept in a         *)
(* std::set ordered by TPSetCmp.  A TPSet is modelled by its interval      *)
(* [start_time, end_time].  The header declares add and                    *)
(* get_tpsets_in_window; their bodies follow the documentation in the      *)
(* header and the description of the buffer's operations.                  *)
(***************************************************************************)
\* calls of add in one behaviour
MaxAdds == 4
\* the largest maximum size a buffer is configured with
MaxCapacity == 3

\* the TPSets handed to add: four start times, two of them with a second
\* TPSet of another length
TPSets ==
  { [start_time |-> 10, end_time |-> 15], [start_time |-> 10, end_time |-> 35],
    [start_time |-> 20, end_time |-> 25],
    [start_time |-> 30, end_time |-> 35], [start_time |-> 30, end_time |-> 55],
    [start_time |-> 40, end_time |-> 45] }

\* the times get_tpsets_in_window is asked for
WindowTimes == {5, 15, 30, 60}

NoQuery == [asked |-> FALSE, start_time |-> 0, end_time |-> 0]

\* a faulty variant: the ends of the TPSets are compared
TPSetCmp_end(ltps, rtps) == ltps.end_time < rtps.end_time

\* TPSetCmp::operator(), lines 49-55
TPSetCmp(ltps, rtps) == ltps.start_time < rtps.start_time

\* std::set: two elements are equivalent when neither is less than the other
SetHas(buf, tps) ==
  \E i \in 1..Len(buf) : ~TPSetCmp(buf[i], tps) /\ ~TPSetCmp(tps, buf[i])

\* std::set::insert: an equivalent element keeps the new one out; otherwise
\* the new one goes after the elements that are less than it
SetInsert(buf, tps) ==
  IF SetHas(buf, tps) THEN buf
  ELSE LET k == Cardinality({ i \in 1..Len(buf) : TPSetCmp(buf[i], tps) })
       IN SubSeq(buf, 1, k) \o << tps >> \o SubSeq(buf, k + 1, Len(buf))

\* the oldest TPSets are removed, from the front, down to the maximum size
RECURSIVE Evict(_, _)
Evict(buf, max) ==
  IF Len(buf) > max THEN Evict(Tail(buf), max) ELSE buf

\* the scan of get_tpsets_in_window: from element i on, in the order of the
\* set, up to the first TPSet that starts after the window
RECURSIVE ScanWindow(_, _, _, _)
ScanWindow(buf, i, start_time, end_time) ==
  IF i > Len(buf) THEN << >>
  ELSE IF buf[i].start_time > end_time THEN << >>
  ELSE IF buf[i].end_time >= start_time
         THEN << buf[i] >> \o ScanWindow(buf, i + 1, start_time, end_time)
         ELSE ScanWindow(buf, i + 1, start_time, end_time)

\* the buffer as constructed, with maximum size max
BufferManager(max) ==
  /\ m_tpset_buffer = << >>
  /\ capacity = max
  /\ add_result = FALSE
  /\ window = NoQuery
  /\ window_result = << >>
  /\ added = << >>

\* add: the TPSet is inserted, the oldest are removed while the buffer is
\* over its maximum size, and the caller learns whether it was inserted
add ==
  /\ Len(added) < MaxAdds
  /\ \E tps \in TPSets :
       /\ m_tpset_buffer' = Evict(SetInsert(m_tpset_buffer, tps), capacity)
       /\ add_result' = ~SetHas(m_tpset_buffer, tps)
       /\ added' = Append(added, tps)
  /\ window' = NoQuery
  /\ window_result' = << >>
  /\ UNCHANGED << capacity, mltVars, makerVars >>

\* get_tpsets_in_window: the TPSets of the buffer that overlap
\* [start_time, end_time]
get_tpsets_in_window ==
  /\ \E start_time \in WindowTimes, end_time \in WindowTimes :
       /\ window' = [asked |-> TRUE, start_time |-> start_time,
                     end_time |-> end_time]
       /\ window_result' = ScanWindow(m_tpset_buffer, 1, start_time, end_time)
  /\ UNCHANGED << m_tpset_buffer, capacity, add_result, added, mltVars,
                  makerVars >>

(***************************************************************************)
(* TimingTriggerCandidateMaker (plugins/TimingTriggerCandidateMaker.cpp):  *)
(* the worker do_work pops TimeStampedData from the input queue, converts  *)
(* each to a TriggerCandidate and pushes it to the output queue.           *)
(***************************************************************************)
\* TimeStampedData the upstream pushes in one behaviour
MaxData == 3
\* the capacity of the input queue and of the output queue
MaxQueue == 2

\* the signal types of the data: 0, 1 and 2 are configured, 3 is not
SignalTypes == {0, 1, 3}

\* what the conf command carries: s0, s1, s2
MakerConf ==
  [s0 |-> [signal_type |-> 0, time_before |-> 10, time_after |-> 20],
   s1 |-> [signal_type |-> 1, time_before |-> 30, time_after |-> 40],
   s2 |-> [signal_type |-> 2, time_before |-> 50, time_after |-> 60]]

NoData == [time_stamp |-> 0, signal_type |-> 0]

\* std::map::operator[]: a key that is missing is inserted with a
\* value-initialized pair
MapAt(map, key) ==
  IF key \in DOMAIN map THEN map
  ELSE [k \in (DOMAIN map) \cup {key} |->
          IF k = key THEN [first |-> 0, second |-> 0] ELSE map[k]]

\* TimeStampedDataToTriggerCandidate, lines 20-37, on the map after the
\* lookups.  The time stamps of the data are larger than every offset, so the
\* unsigned subtraction does not wrap.
TimeStampedDataToTriggerCandidate(map, d) ==
  [time_start     |-> d.time_stamp - map[d.signal_type].first,
   time_end       |-> d.time_stamp + map[d.signal_type].second,
   time_candidate |-> d.time_stamp,
   type           |-> kTiming,
   detid          |-> d.signal_type]

\* the maker as constructed and initialized
TimingTriggerCandidateMaker ==
  /\ m_detid_offsets_map = << >>
  /\ running_flag = FALSE
  /\ inputQueue_ = << >>
  /\ outputQueue_ = << >>
  /\ data = NoData
  /\ candidate = NoTC
  /\ mk_state = "INITIAL"
  /\ mk_cmd = "idle"
  /\ mk_thr = "none"
  /\ produced = 0

MakerIdle(s) == mk_cmd = "idle" /\ mk_state = s

\* do_conf, lines 40-47
maker_do_conf ==
  /\ MakerIdle("INITIAL")
  /\ m_detid_offsets_map' =
       LET p == MakerConf
           m0 == MapAt(m_detid_offsets_map, p.s0.signal_type)
           n0 == [m0 EXCEPT ![p.s0.signal_type] =
                    [first |-> p.s0.time_before, second |-> p.s0.time_after]]
           m1 == MapAt(n0, p.s1.signal_type)
           n1 == [m1 EXCEPT ![p.s1.signal_type] =
                    [first |-> p.s1.time_before, second |-> p.s1.time_after]]
           m2 == MapAt(n1, p.s2.signal_type)
       IN [m2 EXCEPT ![p.s2.signal_type] =
             [first |-> p.s2.time_before, second |-> p.s2.time_after]]
  /\ mk_state' = "CONFIGURED"
  /\ UNCHANGED << running_flag, inputQueue_, outputQueue_, data, candidate,
                  mk_cmd, mk_thr, produced, mltVars, bufVars >>

\* do_scrap, lines 110-112
maker_do_scrap ==
  /\ MakerIdle("CONFIGURED")
  /\ mk_state' = "INITIAL"
  /\ UNCHANGED << m_detid_offsets_map, running_flag, inputQueue_, outputQueue_,
                  data, candidate, mk_cmd, mk_thr, produced, mltVars, bufVars >>

\* do_start, lines 61-66: start_working_thread sets the running flag and
\* starts do_work
maker_do_start ==
  /\ MakerIdle("CONFIGURED")
  /\ running_flag' = TRUE
  /\ mk_thr' = "while"
  /\ data' = NoData
  /\ candidate' = NoTC
  /\ mk_state' = "RUNNING"
  /\ UNCHANGED << m_detid_offsets_map, inputQueue_, outputQueue_, mk_cmd,
                  produced, mltVars, bufVars >>

\* do_stop, line 71: stop_working_thread clears the running flag ...
maker_do_stop ==
  /\ MakerIdle("RUNNING")
  /\ running_flag' = FALSE
  /\ mk_cmd' = "stop_join"
  /\ UNCHANGED << m_detid_offsets_map, inputQueue_, outputQueue_, data,
                  candidate, mk_state, mk_thr, produced, mltVars, bufVars >>

\* ... and joins the worker; lines 72-73
maker_do_stop_join ==
  /\ mk_cmd = "stop_join"
  /\ mk_thr = "done"
  /\ mk_thr' = "none"
  /\ mk_cmd' = "idle"
  /\ mk_state' = "CONFIGURED"
  /\ UNCHANGED << m_detid_offsets_map, running_flag, inputQueue_, outputQueue_,
                  data, candidate, produced, mltVars, bufVars >>

\* line 80: while (running_flag.load())
work_while ==
  /\ mk_thr = "while"
  /\ mk_thr' = IF running_flag THEN "pop" ELSE "done"
  /\ UNCHANGED << m_detid_offsets_map, running_flag, inputQueue_, outputQueue_,
                  data, candidate, mk_state, mk_cmd, produced, mltVars,
                  bufVars >>

\* lines 83-87: pop, and on a timeout back to line 80
work_pop ==
  /\ mk_thr = "pop"
  /\ IF inputQueue_ # << >>
       THEN /\ data' = Head(inputQueue_)
            /\ inputQueue_' = Tail(inputQueue_)
            /\ mk_thr' = "convert"
       ELSE /\ UNCHANGED << data, inputQueue_ >>
            /\ mk_thr' = "while"
  /\ UNCHANGED << m_detid_offsets_map, running_flag, outputQueue_, candidate,
                  mk_state, mk_cmd, produced, mltVars, bufVars >>

\* line 89
work_convert ==
  /\ mk_thr = "convert"
  /\ m_detid_offsets_map' = MapAt(m_detid_offsets_map, data.signal_type)
  /\ candidate' = TimeStampedDataToTriggerCandidate(
                    MapAt(m_detid_offsets_map, data.signal_type), data)
  /\ mk_thr' = "push"
  /\ UNCHANGED << running_flag, inputQueue_, outputQueue_, data, mk_state,
                  mk_cmd, produced, mltVars, bufVars >>

\* lines 94-97: push, which times out on a full queue.  It is repeated until
\* it goes through (line 94); the running flag is not looked at here.
work_push ==
  /\ mk_thr = "push"
  /\ LET pushed == Len(outputQueue_) < MaxQueue IN
       /\ outputQueue_' = IF pushed THEN Append(outputQueue_, candidate)
                                    ELSE outputQueue_
       /\ mk_thr' = IF pushed THEN "while" ELSE "warn"
  /\ UNCHANGED << m_detid_offsets_map, running_flag, inputQueue_, data,
                  candidate, mk_state, mk_cmd, produced, mltVars, bufVars >>

\* lines 98-103: the warning, and back to line 94
work_warn ==
  /\ mk_thr = "warn"
  /\ mk_thr' = "push"
  /\ UNCHANGED << m_detid_offsets_map, running_flag, inputQueue_, outputQueue_,
                  data, candidate, mk_state, mk_cmd, produced, mltVars,
                  bufVars >>

\* the upstream pushes TimeStampedData to the input queue
upstream_push ==
  /\ produced < MaxData
  /\ Len(inputQueue_) < MaxQueue
  /\ \E st \in SignalTypes :
       inputQueue_' = Append(inputQueue_,
                             [time_stamp |-> 1000 * (produced + 1),
                              signal_type |-> st])
  /\ produced' = produced + 1
  /\ UNCHANGED << m_detid_offsets_map, running_flag, outputQueue_, data,
                  candidate, mk_state, mk_cmd, mk_thr, mltVars, bufVars >>

\* the downstream pops a candidate from the output queue
downstream_pop ==
  /\ outputQueue_ # << >>
  /\ outputQueue_' = Tail(outputQueue_)
  /\ UNCHANGED << m_detid_offsets_map, running_flag, inputQueue_, data,
                  candidate, mk_state, mk_cmd, mk_thr, produced, mltVars,
                  bufVars >>

(***************************************************************************)
(* Initial state: the three components as constructed.                     *)
(***************************************************************************)
Init ==
  /\ ModuleLevelTrigger(NoTC, << >>, FALSE, 0, 0)
  /\ BufferManager(MaxCapacity)
  /\ TimingTriggerCandidateMaker

(***************************************************************************)
(* Specifications.                                                         *)
(***************************************************************************)
Commands ==
  \/ do_configure
  \/ do_scrap
  \/ do_start
  \/ do_start_spawn
  \/ do_stop
  \/ do_stop_join
  \/ do_stop_lc
  \/ do_stop_remove
  \/ do_pause
  \/ do_pause_lc
  \/ do_resume
  \/ do_resume_flag

Callback ==
  \/ dfo_busy_callback
  \/ dfo_busy_check
  \/ dfo_busy_store
  \/ dfo_busy_set_state

send_trigger_decisions ==
  \/ thr_reset
  \/ thr_receive
  \/ thr_receive_timeout
  \/ thr_empty
  \/ thr_gate_paused
  \/ thr_gate_busy
  \/ thr_send
  \/ thr_elif
  \/ thr_total
  \/ thr_exit

Next == Commands \/ Callback \/ send_trigger_decisions

\* the program with the clock standing still
Spec == Init /\ [][Next]_vars


\* the program with the clock running and a candidate source that stays
\* empty: the LivetimeCounter is driven by the commands and the callback only
NextClock ==
  \/ Commands
  \/ Callback
  \/ thr_reset
  \/ thr_receive_timeout
  \/ thr_empty
  \/ thr_exit
  \/ Tick

SpecClock == Init /\ [][NextClock]_vars

\* create_decision applied once to a candidate of any type and detector id,
\* under either configuration of the links, with pass-through on or off
InitDecision ==
  /\ \E c \in DecisionCandidates, params \in ConfParams, passthrough \in BOOLEAN :
       ModuleLevelTrigger(c, params.links, passthrough, RunNumberOf(1), 0)
  /\ BufferManager(MaxCapacity)
  /\ TimingTriggerCandidateMaker

SpecDecision == InitDecision /\ [][apply_create_decision]_vars

\* the buffer on its own, with a maximum size of 1 to MaxCapacity
InitBuffer ==
  /\ ModuleLevelTrigger(NoTC, << >>, FALSE, 0, 0)
  /\ \E max \in 1..MaxCapacity : BufferManager(max)
  /\ TimingTriggerCandidateMaker

NextBuffer == add \/ get_tpsets_in_window

SpecBuffer == InitBuffer /\ [][NextBuffer]_vars

\* the maker on its own
MakerCommands ==
  \/ maker_do_conf
  \/ maker_do_start
  \/ maker_do_stop
  \/ maker_do_stop_join
  \/ maker_do_scrap

do_work ==
  \/ work_while
  \/ work_pop
  \/ work_convert
  \/ work_push
  \/ work_warn

NextMaker == MakerCommands \/ do_work \/ upstream_push \/ downstream_pop

\* the maker under fair scheduling: the worker keeps running and join returns
\* once it has returned; the upstream and the downstream may stop at any time
FairMaker ==
  /\ Init
  /\ [][NextMaker]_vars
  /\ WF_vars(do_work)
  /\ WF_vars(maker_do_stop_join)

\* the program under fair scheduling: the decision thread keeps running, and
\* join returns once the thread has returned
FairSpec ==
  /\ Init
  /\ [][Next]_vars
  /\ WF_vars(send_trigger_decisions)
  /\ WF_vars(do_stop_join)

(***************************************************************************)
(* What the sink saw.                                                      *)
(***************************************************************************)
IsOk(a) == a.ok

\* the sends of this run that succeeded, in send order
SentAttempts == SelectSeq(attempts, IsOk)

\* the decision the claims expect for candidate c as the n-th sent decision
\* of run r, written out field by field
ExpectedDecision(c, n, r) ==
  [trigger_number    |-> n,
   run_number        |-> r,
   trigger_timestamp |-> c.time_candidate,
   trigger_type      |-> IF m_hsi_passthrough THEN last_decision.trigger_type ELSE 1,
   components        |-> [i \in 1..Len(m_links) |->
                            [component |-> m_links[i],
                             window_begin |-> c.time_start,
                             window_end |-> c.time_end]]]

(***************************************************************************)
(* C1: in every reachable state the trigger numbers of the decisions sent  *)
(* successfully in the run, in send order, are 1, 2, 3, ...: the i-th      *)
(* carries i, whatever pause, resume, busy notifications and send failures *)
(* were interleaved.                                                       *)
(***************************************************************************)
C1_TriggerNumbers ==
  \A i \in 1..Len(SentAttempts) : SentAttempts[i].trigger_number = i

\* two decisions were sent, numbered 1 and 2, in a run with a resume and two
\* more commands or notifications
C1_Witness ==
  /\ Len(SentAttempts) = 2
  /\ SentAttempts[2].trigger_number = 2
  /\ events = MaxEvents

(***************************************************************************)
(* C2: the send attempts of a run are in the order in which their          *)
(* candidates were received and no candidate is attempted twice (the       *)
(* candidate numbers of the attempts increase strictly); the decision last *)
(* handed to the sink carries the timestamp of the candidate it was        *)
(* attempted for.                                                          *)
(***************************************************************************)
C2_SendOrder ==
  /\ \A i, j \in 1..Len(attempts) :
        i < j => attempts[i].cand < attempts[j].cand
  /\ \A i \in 1..Len(attempts) : attempts[i].cand \in 1..recv
  /\ Len(attempts) > 0 =>
        last_decision.trigger_timestamp
          = SourceCandidate(attempts[Len(attempts)].cand).time_candidate

\* two candidates were received and both were sent, the first before the
\* second
C2_Witness ==
  /\ Len(SentAttempts) = 2
  /\ attempts[1].cand = 1
  /\ attempts[2].cand = 2
  /\ last_decision.trigger_timestamp = 250

(***************************************************************************)
(* C3: whenever the LivetimeCounter exists, the times get_info reports for *)
(* kLive, kPaused and kDead add up to the time since the counter was       *)
(* created at run start, whatever transitions the commands and the inhibit *)
(* callback have made.                                                     *)
(***************************************************************************)
C3_LivetimeSum ==
  ~m_livetime_counter.null =>
     get_info.lc_kLive + get_info.lc_kPaused + get_info.lc_kDead
       = now - m_livetime_counter.created_at

\* the counter has been through kPaused, kLive and kDead, with time in each
C3_Witness ==
  /\ ~m_livetime_counter.null
  /\ get_info.lc_kLive > 0
  /\ get_info.lc_kPaused > 0
  /\ get_info.lc_kDead > 0

(***************************************************************************)
(* C4 as claimed: after the start of run r with no command in between, the *)
(* first candidate received and processed has produced one sent decision   *)
(* with trigger number 1 and the fields of the candidate.                  *)
(***************************************************************************)
C4_Original ==
  (/\ events = 0 /\ state = "RUNNING" /\ cmd = "idle"
   /\ recv = 1 /\ thr = "poll" /\ cur.id = 1)
  => /\ Len(attempts) = 1
     /\ attempts[1].ok
     /\ last_decision = ExpectedDecision(SourceCandidate(1), 1, RunNumberOf(runs))

(***************************************************************************)
(* C4 as amended: with no command or notification since construction       *)
(* nothing is handed to the sink (start leaves the engine paused); and the *)
(* first decision of a run that is sent successfully carries, for as long  *)
(* as the run lasts and it is the last one sent, trigger                   *)
(* number 1, the run number of the start command, the time_candidate of    *)
(* its candidate, trigger type 1 when pass-through is disabled, and one    *)
(* readout request per configured link, in configured order, each over the *)
(* candidate's [time_start, time_end].                                     *)
(***************************************************************************)
C4_FirstDecision ==
  /\ events = 0 => attempts = << >>
  /\ (/\ state = "RUNNING"
      /\ Len(SentAttempts) = 1
      /\ attempts[Len(attempts)].ok)
     => last_decision
          = ExpectedDecision(SourceCandidate(attempts[Len(attempts)].cand),
                             1, RunNumberOf(runs))

\* run 7, two links, pass-through disabled: the first candidate received
\* (100, 200, 150) is the first decision sent
C4_Witness ==
  /\ runs = 1
  /\ Len(m_links) = 2
  /\ ~m_hsi_passthrough
  /\ Len(attempts) = 1
  /\ attempts[1].ok
  /\ attempts[1].cand = 1
  /\ last_decision.trigger_timestamp = 150
  /\ last_decision.run_number = 7

(***************************************************************************)
(* C5: from the return of pause() until resume() is called, with n         *)
(* candidates received since: the sent count, the last trigger number and  *)
(* the sink are as they were, and at the head of the loop the paused count *)
(* and the total count have each grown by n, the inhibited count by 0,     *)
(* whether or not busy is set.  The counts are taken from the head of the  *)
(* loop the thread first reaches after pause() returned.                   *)
(***************************************************************************)
C5_PausedSuppressed ==
  (pz.on /\ ~pz.pending) =>
    /\ m_td_sent_count = pz.base.sent
    /\ m_last_trigger_number = pz.base.ltn
    /\ Len(attempts) = pz.base.attempts
    /\ AtLoopHead =>
         /\ m_td_paused_count = pz.base.paused + pz.n
         /\ m_td_total_count = pz.base.total + pz.n
         /\ m_td_inhibited_count = pz.base.inhibited

\* two candidates were received and processed during a pause with busy set
C5_Witness ==
  /\ pz.on /\ ~pz.pending
  /\ pz.n = 2
  /\ thr = "poll"
  /\ m_td_total_count = pz.base.total + 2
  /\ m_dfo_is_busy

(***************************************************************************)
(* C6: once a busy=true notification has been applied while the engine is  *)
(* resumed, and until another command or notification of the run comes,    *)
(* with n candidates received since: the LivetimeCounter reads kDead, the  *)
(* sent count and the sink are as they were, and at the head of the loop   *)
(* the inhibited count and the total count have each grown by n.           *)
(***************************************************************************)
C6_BusyInhibits ==
  (qb.on /\ ~qb.pending) =>
    /\ m_livetime_counter.current_state = "kDead"
    /\ m_td_sent_count = qb.base.sent
    /\ m_last_trigger_number = qb.base.ltn
    /\ Len(attempts) = qb.base.attempts
    /\ AtLoopHead =>
         /\ m_td_inhibited_count = qb.base.inhibited + qb.n
         /\ m_td_total_count = qb.base.total + qb.n
         /\ m_td_paused_count = qb.base.paused

\* a decision was sent, then busy was notified, and the next candidate was
\* received and counted as inhibited
C6_Witness ==
  /\ qb.on /\ ~qb.pending
  /\ qb.n = 1
  /\ thr = "poll"
  /\ qb.base.sent = 1
  /\ m_td_inhibited_count = 1

(***************************************************************************)
(* C7: the step of dfo_busy_callback that finds the run number of the      *)
(* notification different from m_run_number ends the callback and leaves   *)
(* the busy flag, the LivetimeCounter, the paused flag, the counters and   *)
(* the last trigger number as they were, for busy=true and busy=false.     *)
(***************************************************************************)
C7_ForeignStep ==
  (cb = "check" /\ cb' # cb /\ inhibit.run_number # m_run_number)
  => /\ cb' = "idle"
     /\ UNCHANGED << m_dfo_is_busy, m_livetime_counter, m_paused, counterVars >>

\* C7: every step of the callback on a notification of another run is such
\* a step: the notification changes nothing
C7_ForeignRunIgnored == [][C7_ForeignStep]_vars

\* the callback holds a busy=true notification of another run while the
\* engine is resumed and not busy
C7_Witness ==
  /\ cb = "check"
  /\ inhibit.run_number # m_run_number
  /\ inhibit.busy
  /\ ~m_dfo_is_busy
  /\ ~m_paused
  /\ m_livetime_counter.current_state = "kLive"

(***************************************************************************)
(* C8: after a send that failed, the sent count and the last trigger       *)
(* number are those at the receipt of the candidate, the failure count is  *)
(* one more, and the total count is one more once the iteration has ended; *)
(* no candidate is attempted twice; the next send that succeeds carries    *)
(* the trigger number of the failed one; and the thread goes from the send *)
(* to line 251 and from there to the poll.                                 *)
(***************************************************************************)
C8_AfterFailure ==
  /\ cur.outcome = "failed" =>
       /\ m_td_sent_count = cur.base.sent
       /\ m_last_trigger_number = cur.base.ltn
       /\ m_td_queue_timeout_expired_err_count = cur.base.err + 1
       /\ m_td_total_count = cur.base.total + (IF thr = "total" THEN 0 ELSE 1)
  /\ \A i, j \in 1..Len(attempts) :
       attempts[i].cand = attempts[j].cand => i = j
  /\ \A i, j \in 1..Len(attempts) :
       (/\ i < j /\ ~attempts[i].ok /\ attempts[j].ok
        /\ \A k \in (i + 1)..(j - 1) : ~attempts[k].ok)
       => attempts[j].trigger_number = attempts[i].trigger_number

C8_FailureStep ==
  /\ (thr = "send" /\ thr' # thr) => thr' = "total"
  /\ (thr = "total" /\ thr' # thr) => thr' = "poll"

\* C8: a failed send leaves the sent count and the trigger number, is
\* counted once, is not tried again and does not end the loop
C8_SendFailure == []C8_AfterFailure /\ [][C8_FailureStep]_vars

\* the send for the first candidate failed and the send for the second
\* succeeded, with the running flag still set
C8_Witness ==
  /\ Len(attempts) = 2
  /\ ~attempts[1].ok
  /\ attempts[2].ok
  /\ attempts[2].trigger_number = 1
  /\ m_td_queue_timeout_expired_err_count = 1
  /\ m_running_flag

(***************************************************************************)
(* C9 as claimed: once start() has returned, the counters get_info reports *)
(* are those of the new run (what was received and sent since the start,   *)
(* nothing left over), the last trigger number is that of the new run,     *)
(* and, with no command or notification so far, paused is set, busy is     *)
(* clear and the LivetimeCounter is a fresh one in kPaused.                *)
(***************************************************************************)
C9_ResetAtStart ==
  state = "RUNNING" =>
    /\ get_info.tc_received_count = recv
    /\ get_info.td_sent_count = Len(SentAttempts)
    /\ get_info.td_total_count <= recv
    /\ get_info.td_paused_count + get_info.td_inhibited_count <= recv
    /\ m_last_trigger_number = Len(SentAttempts)
    /\ (events = 0 /\ cmd = "idle") =>
         /\ m_paused
         /\ ~m_dfo_is_busy
         /\ m_livetime_counter = LivetimeCounter("kPaused", now)

(***************************************************************************)
(* C10: the loop is left only from an empty poll with the running flag     *)
(* cleared; when it is left every candidate delivered in the run has been  *)
(* counted and classified; nothing is sent after it is left; and once stop *)
(* waits in join, the thread returns and join with it.                     *)
(***************************************************************************)
C10_Exited ==
  thr \in {"exit", "done"} =>
    /\ ~m_running_flag
    /\ m_tc_received_count = recv
    /\ m_td_total_count = recv
    /\ cur.id = recv
    /\ recv > 0 => cur.outcome \in {"sent", "failed", "paused", "inhibited"}

C10_ExitStep ==
  /\ (thr # "exit" /\ thr' = "exit") => (thr = "empty" /\ ~m_running_flag)
  /\ thr \in {"exit", "done"} => attempts' = attempts

\* C10: the loop ends only at an empty poll after stop was requested, with
\* every candidate classified and nothing sent afterwards, and it does end
C10_LoopExit ==
  /\ []C10_Exited
  /\ [][C10_ExitStep]_vars
  /\ (cmd = "stop_join") ~> (cmd = "stop_lc")

\* stop waits in join and the thread has returned, after every candidate of
\* the source was received and one of them at least handed to the sink
C10_Witness ==
  /\ cmd = "stop_join"
  /\ thr = "done"
  /\ recv = MaxCands
  /\ Len(attempts) > 0

(***************************************************************************)
(* C11 as claimed: the running flag is looked at whenever the poll         *)
(* returns, with a candidate too, so a candidate received with the flag    *)
(* already cleared is the last one: once it is processed the loop does not *)
(* poll again.                                                             *)
(***************************************************************************)
C11_OriginalStep ==
  (thr = "total" /\ cur.stopped /\ thr' # thr) => thr' # "poll"

C11_Original == [][C11_OriginalStep]_vars

(***************************************************************************)
(* C11 as amended: the running flag is looked at only when the poll        *)
(* returns empty.  A candidate the poll returns is processed to the end    *)
(* and followed by another poll, whether or not stop was requested; an     *)
(* empty poll ends the loop when the flag is cleared and is followed by    *)
(* another poll when it is set.                                            *)
(***************************************************************************)
C11_PollStep ==
  /\ (thr = "empty" /\ thr' # thr)
       => thr' = IF m_running_flag THEN "poll" ELSE "exit"
  /\ (thr = "poll" /\ thr' # thr) => thr' \in {"gate_paused", "empty"}
  /\ (Processing /\ thr' # thr) => thr' \in {"gate_busy", "send", "elif", "total"}
  /\ (thr = "total" /\ thr' # thr)
       => (thr' = "poll" /\ m_td_total_count' = m_td_total_count + 1)

C11_StopAtEmptyPoll == [][C11_PollStep]_vars

\* stop was requested while the engine was resumed; the second candidate was
\* received after that and was sent, and line 251 is next
C11_Witness ==
  /\ cmd = "stop_join"
  /\ ~m_running_flag
  /\ cur.stopped
  /\ cur.id = 2
  /\ cur.outcome = "sent"
  /\ thr = "total"
  /\ Len(attempts) = 1

(***************************************************************************)
(* C12 as claimed: a decision is handed to the sink only in state kLive.   *)
(* A send that succeeds is for a candidate during whose processing, from   *)
(* its receipt to the send, the LivetimeCounter read kLive at some time    *)
(* (so a pause or a notification that overlaps the processing does not     *)
(* count against the claim).                                               *)
(***************************************************************************)
C12_SendStep ==
  (thr = "send" /\ m_td_sent_count' > m_td_sent_count)
    => (cur.live \/ m_livetime_counter.current_state = "kLive")

C12_SentOnlyWhenLive == [][C12_SendStep]_vars

(***************************************************************************)
(* C13 as claimed: the step of dfo_busy_callback that follows the store of *)
(* the busy flag leaves the LivetimeCounter's state as it was when the     *)
(* notification says busy=false and moves it to kDead when it says         *)
(* busy=true; the store sets the busy flag to the notified value; and no   *)
(* other step enters kDead.                                                *)
(***************************************************************************)
C13_NotificationStep ==
  /\ (cb = "store" /\ cb' # cb) => m_dfo_is_busy' = inhibit.busy
  /\ (cb = "set_state" /\ cb' # cb /\ ~m_livetime_counter.null /\ ~crashed') =>
       /\ ~m_livetime_counter'.null
       /\ m_livetime_counter'.current_state
            = IF inhibit.busy THEN "kDead"
                              ELSE m_livetime_counter.current_state
  /\ (/\ ~m_livetime_counter.null /\ ~m_livetime_counter'.null
      /\ m_livetime_counter.current_state # "kDead"
      /\ m_livetime_counter'.current_state = "kDead")
     => (cb = "set_state" /\ inhibit.busy)

C13_DeadOnlyOnBusy == [][C13_NotificationStep]_vars

\* the elements of a sequence
Elements(seq) == { seq[i] : i \in 1..Len(seq) }

(***************************************************************************)
(* C14: what get_tpsets_in_window(a, b) returned is exactly the TPSets of  *)
(* the buffer with start_time <= b and end_time >= a, each once, in        *)
(* ascending order of start_time, whatever the order of the adds.          *)
(***************************************************************************)
C14_QueryExact ==
  window.asked =>
    /\ Elements(window_result)
         = { t \in Elements(m_tpset_buffer) :
               t.start_time <= window.end_time /\ t.end_time >= window.start_time }
    /\ \A i, j \in 1..Len(window_result) :
         i < j => window_result[i].start_time < window_result[j].start_time

\* three TPSets were added, a later one before an earlier one, and the window
\* [15, 30] returned two of them: the one that ends at 15 and the one that
\* starts at 30
C14_Witness ==
  /\ window = [asked |-> TRUE, start_time |-> 15, end_time |-> 30]
  /\ Len(added) = 3
  /\ added[1].start_time > added[2].start_time
  /\ Len(m_tpset_buffer) = 3
  /\ window_result = << [start_time |-> 10, end_time |-> 15],
                        [start_time |-> 30, end_time |-> 35] >>

(***************************************************************************)
(* C15 as claimed: after every add the buffer holds at most capacity       *)
(* TPSets; it holds every TPSet added so far when these are no more than   *)
(* capacity; and otherwise it holds capacity of them, none of which starts *)
(* before a TPSet that was added and is not held.                          *)
(***************************************************************************)
C15_RetainsMostRecent ==
  /\ Len(m_tpset_buffer) <= capacity
  /\ Elements(m_tpset_buffer) \subseteq Elements(added)
  /\ Cardinality(Elements(added)) <= capacity
       => Elements(m_tpset_buffer) = Elements(added)
  /\ Cardinality(Elements(added)) > capacity
       => /\ Len(m_tpset_buffer) = capacity
          /\ \A kept \in Elements(m_tpset_buffer) :
               \A lost \in Elements(added) \ Elements(m_tpset_buffer) :
                 lost.start_time <= kept.start_time

(***************************************************************************)
(* C16: the trigger type of the decision create_decision builds is, with   *)
(* pass-through on, the detector id modulo 256 for a candidate of type     *)
(* kTiming and 256 times the type code for any other type (a multiple of   *)
(* 256); with pass-through off it is 1.                                    *)
(***************************************************************************)
C16_TriggerType ==
  last_decision # NoDecision =>
    /\ last_decision.trigger_type
         = IF ~m_hsi_passthrough THEN 1
           ELSE IF tc.type = kTiming THEN tc.detid % 256
           ELSE tc.type * 256
    /\ (m_hsi_passthrough /\ tc.type # kTiming)
         => last_decision.trigger_type % 256 = 0

\* pass-through is on and the decision for a kTiming candidate with detector
\* id 4660 (0x1234) carries trigger type 52 (0x34)
C16_Witness ==
  /\ m_hsi_passthrough
  /\ tc.type = kTiming
  /\ tc.detid = 4660
  /\ last_decision.trigger_type = 52

(***************************************************************************)
(* C17 as claimed: a candidate is counted as inhibited by busy only if the *)
(* busy flag was set at some time while it was processed, from its receipt *)
(* to the count at line 249, whatever command or notification runs         *)
(* between the two reads of the paused flag (lines 225 and 243).           *)
(***************************************************************************)
C17_InhibitStep ==
  (thr = "elif" /\ m_td_inhibited_count' > m_td_inhibited_count) => cur.busy

C17_InhibitedOnlyWhenBusy == [][C17_InhibitStep]_vars

\* the sends of this run that failed
FailedAttempts == Len(attempts) - Len(SentAttempts)

\* the candidates of this run that have incremented an outcome counter
Classified ==
  m_td_sent_count + m_td_paused_count + m_td_inhibited_count + FailedAttempts

(***************************************************************************)
(* C18: inside the loop of a run, at the head of an iteration the received *)
(* count, the total count and the sum of the sent, paused and inhibited    *)
(* counts and the failed sends of the run are equal, and equal to the      *)
(* candidates the source has delivered; while a candidate is processed the *)
(* received count is one ahead of the total count, and the candidate       *)
(* increments one outcome counter before the total count follows.          *)
(***************************************************************************)
C18_Conservation ==
  /\ thr \in {"poll", "empty", "exit", "done"} =>
       /\ m_tc_received_count = recv
       /\ m_td_total_count = m_tc_received_count
       /\ Classified = m_tc_received_count
  /\ Processing =>
       /\ m_tc_received_count = m_td_total_count + 1
       /\ Classified = m_td_total_count
  /\ thr = "total" =>
       /\ m_tc_received_count = m_td_total_count + 1
       /\ Classified = m_tc_received_count

\* at the head of the loop after two candidates: the send of one failed and
\* the other was counted as inhibited
C18_Witness ==
  /\ thr = "poll"
  /\ m_tc_received_count = 2
  /\ FailedAttempts = 1
  /\ m_td_inhibited_count = 1
  /\ m_td_total_count = 2

(***************************************************************************)
(* C19 as claimed: while the inhibit callback is registered,               *)
(* dfo_busy_callback never reaches its call of set_state (line 277) with   *)
(* the LivetimeCounter that do_stop has reset to null, and the process     *)
(* never dies of it.                                                       *)
(***************************************************************************)
C19_NoUseAfterReset ==
  /\ ~(callback_registered /\ cb = "set_state" /\ m_livetime_counter.null)
  /\ ~crashed

(***************************************************************************)
(* C20 as claimed: once stop has cleared the running flag and waits for    *)
(* the worker, do_work returns.                                            *)
(***************************************************************************)
C20_WorkerReturns == (mk_cmd = "stop_join") ~> (mk_thr = "done")

====
